---- MODULE Spec2Model ----
(***************************************************************************)
(* Model of operator-index.py: the `push` command (with the `build`       *)
(* command it invokes), the runtime detection and the rendering of the    *)
(* index-builder command line.                                            *)
(*                                                                         *)
(* Strings are sequences of one-character strings, so that concatenation, *)
(* equality, endswith and whitespace splitting are computed as Python     *)
(* computes them.  An optional string (click option that may be None) is  *)
(* a sequence of length 0 (None) or 1 (the string).                       *)
(***************************************************************************)
EXTENDS Integers, Sequences, FiniteSets, TLC

VARIABLES host, store, settings, tag_extension, extra_tag, build,
          pc, runtime, images, found_image, built_tag,
          tag_cmds, push_cmds, cmds, detections, run, prev

vars == <<host, store, settings, tag_extension, extra_tag, build,
          pc, runtime, images, found_image, built_tag,
          tag_cmds, push_cmds, cmds, detections, run, prev>>

inputs == <<host, settings, tag_extension, extra_tag, build>>

(* which invocation of the command this is, and what the previous one     *)
(* pushed and left in the local image store                               *)
history == <<run, prev>>

-----------------------------------------------------------------------------
(* Bounds of the model                                                     *)

MaxExtra == 2
MaxStore == 2
MaxBundles == 2
MaxRuns == 2

-----------------------------------------------------------------------------
(* String literals                                                         *)

COLON == <<":">>
DASH == <<"-">>
COMMA == <<",">>
DOCKER == <<"d", "o", "c", "k", "e", "r">>
PODMAN == <<"p", "o", "d", "m", "a", "n">>
OPM_PATH == <<"o", "p", "m">>
INDEX_ADD == <<" ", "i", "n", "d", "e", "x", " ", "a", "d", "d", " ",
               "-", "-", "b", "u", "i", "l", "d", "-", "t", "o", "o", "l", " ">>
BUNDLES_OPT == <<" ", "-", "-", "b", "u", "n", "d", "l", "e", "s", " ">>
TAG_OPT == <<" ", "-", "-", "t", "a", "g", " ">>
TAG_FLAG == <<"-", "-", "t", "a", "g">>
BUILD_TOOL_FLAG == <<"-", "-", "b", "u", "i", "l", "d", "-", "t", "o", "o", "l">>

None == <<>>
Some(s) == <<s>>

(* The configuration and the command line the model explores *)
IDX == <<"i", "d", "x">>
V1 == <<"v", "1">>
CI == <<"c", "i">>
LATEST == <<"l">>
IndexTags == {V1, V1 \o DASH \o CI}
Extensions == {None, Some(<<>>), Some(CI)}
BareTags == {V1, V1 \o DASH \o CI \o DASH \o CI, LATEST}
BundleA == [name |-> <<"a">>, img |-> <<"a">>, tag |-> <<"1">>]
BundleB == [name |-> <<"b">>, img |-> <<"b">>, tag |-> <<"2">>]
Ref(tag) == IDX \o COLON \o tag
StoreUniverse == {Ref(V1), Ref(V1 \o DASH), Ref(V1 \o DASH \o CI),
                  Ref(V1 \o DASH \o CI \o DASH),
                  Ref(V1 \o DASH \o CI \o DASH \o CI)}
HostStates == {"absent", "link", "real"}

RECURSIVE SeqsUpTo(_, _)
SeqsUpTo(S, n) ==
    IF n = 0 THEN {<<>>}
    ELSE LET shorter == SeqsUpTo(S, n - 1)
         IN  shorter \cup {Append(s, x) : s \in shorter, x \in S}

(* every ordering of a finite set, as the image listing may print it *)
Orderings(S) ==
    {f \in [1..Cardinality(S) -> S] : \A x \in S : \E i \in DOMAIN f : f[i] = x}

-----------------------------------------------------------------------------
(* Pure helpers of the script                                              *)

EndsWith(s, suffix) ==
    /\ Len(s) >= Len(suffix)
    /\ SubSeq(s, Len(s) - Len(suffix) + 1, Len(s)) = suffix

RECURSIVE Join(_, _)
Join(sep, parts) ==
    IF parts = <<>> THEN <<>>
    ELSE IF Len(parts) = 1 THEN parts[1]
    ELSE parts[1] \o sep \o Join(sep, Tail(parts))

(* shlex.split on a string without quotes: split on runs of whitespace *)
RECURSIVE SplitFrom(_, _, _)
SplitFrom(s, cur, acc) ==
    IF s = <<>> THEN (IF cur = <<>> THEN acc ELSE Append(acc, cur))
    ELSE IF Head(s) = " "
         THEN SplitFrom(Tail(s), <<>>, IF cur = <<>> THEN acc ELSE Append(acc, cur))
         ELSE SplitFrom(Tail(s), Append(cur, Head(s)), acc)

ShlexSplit(s) == SplitFrom(s, <<>>, <<>>)

-----------------------------------------------------------------------------
(* OperatorIndexSettings                                                   *)

(* variant: a symbolic link is taken as well *)
Accepted_IgnoresLink(status) == status # "absent"

(* _determine_runtime: a candidate is taken when `which` prints a path     *)
(* ending in its name that is not a symbolic link; None models the raise.  *)
Accepted(status) == status = "real"

(* the `which` subprocesses _determine_runtime starts, in order: the       *)
(* second loop is reached only when the first has not returned             *)
WhichRan(name, status) ==
    [op |-> "which", rt |-> <<>>, src |-> name, dst |-> <<>>,
     ret |-> IF status = "absent" THEN 1 ELSE 0]

which_log(h) ==
    IF Accepted(h.docker) THEN <<WhichRan(DOCKER, h.docker)>>
    ELSE <<WhichRan(DOCKER, h.docker), WhichRan(PODMAN, h.podman)>>

determine_runtime(h) ==
    IF Accepted(h.docker) THEN Some(DOCKER)
    ELSE IF Accepted(h.podman) THEN Some(PODMAN)
    ELSE None

(* variant: the bundles are rendered last to first *)
BundleRefs_Reversed(bundles) ==
    [i \in 1..Len(bundles) |->
        bundles[Len(bundles) + 1 - i].img \o COLON \o bundles[Len(bundles) + 1 - i].tag]

BundleRefs(bundles) ==
    [i \in 1..Len(bundles) |-> bundles[i].img \o COLON \o bundles[i].tag]

(* variant: the build tool is always docker *)
generate_command_line_Docker(s, rt) ==
    INDEX_ADD \o DOCKER \o BUNDLES_OPT \o Join(COMMA, BundleRefs(s.bundles))
              \o TAG_OPT \o (s.index.img \o COLON \o s.index.tag)

generate_command_line(s, rt) ==
    INDEX_ADD \o rt \o BUNDLES_OPT \o Join(COMMA, BundleRefs(s.bundles))
              \o TAG_OPT \o (s.index.img \o COLON \o s.index.tag)

-----------------------------------------------------------------------------
(* shell                                                                   *)

(* variant: the exit code is never acted upon *)
ShellExits_Never(fail, ret) == FALSE

(* shell(cmd, fail) exits the process when fail is set and ret is not 0 *)
ShellExits(fail, ret) == fail /\ ret # 0

Ran(c, ret) ==
    [op |-> c.op, rt |-> c.rt, src |-> c.src, dst |-> c.dst, ret |-> ret]

(* a shell(...) generator that is iterated: the subprocess is started,     *)
(* its output consumed and its exit code waited for                        *)
ShellIterated(log, c, ret) == Append(log, Ran(c, ret))

(* a shell(...) call whose generator is never iterated: the function body  *)
(* does not run, no subprocess is started                                  *)
ShellNotIterated(log, c) == log

(* exit codes the container runtime can return *)
ListRets == {0, 1}
BuildRets == {0, 1}
TagRets(st, src) == IF src \in st THEN {0, 1} ELSE {1}
PushRets(st, ref) == IF ref \in st THEN {0, 1} ELSE {1}

-----------------------------------------------------------------------------
(* do_build                                                                *)

Extend(tag, ext) == IF ext # None THEN tag \o DASH \o ext[1] ELSE tag

(* variant: the extension is not appended to the builder command *)
build_cmd_NoExtension(s, rt, ext) == OPM_PATH \o generate_command_line(s, rt)

build_cmd(s, rt, ext) == Extend(OPM_PATH \o generate_command_line(s, rt), ext)

(* the value the builder receives for --tag out of the split command line *)
BuilderTagArg(cmd) ==
    LET argv == ShlexSplit(cmd)
        at == {i \in 1..(Len(argv) - 1) : argv[i] = TAG_FLAG}
    IN  IF at = {} THEN <<>> ELSE argv[(CHOOSE i \in at : \A j \in at : i >= j) + 1]

(* the value the builder receives for --build-tool *)
BuilderToolArg(cmd) ==
    LET argv == ShlexSplit(cmd)
        at == {i \in 1..(Len(argv) - 1) : argv[i] = BUILD_TOOL_FLAG}
    IN  IF at = {} THEN <<>> ELSE argv[(CHOOSE i \in at : \A j \in at : i >= j) + 1]

-----------------------------------------------------------------------------
(* push: pure parts                                                        *)

ConfiguredTag(s) == s.index.img \o COLON \o s.index.tag

(* variant: a listed line matches when it starts with the target *)
SearchLoop_Prefix(lines, target) ==
    \E i \in DOMAIN lines :
        /\ Len(lines[i]) >= Len(target)
        /\ SubSeq(lines[i], 1, Len(target)) = target

(* for line in images: if line == target: ...; break *)
RECURSIVE SearchLoop(_, _)
SearchLoop(lines, target) ==
    IF lines = <<>> THEN FALSE
    ELSE IF Head(lines) = target THEN TRUE
    ELSE SearchLoop(Tail(lines), target)

(* variant: no second loop when an extension was requested *)
ResolveTag_NoFallback(bt, ext, lines) ==
    LET hit1 == ext # None /\ SearchLoop(lines, bt \o DASH \o ext[1])
        bt1 == IF hit1 THEN bt \o DASH \o ext[1] ELSE bt
        hit2 == IF ext = None THEN SearchLoop(lines, bt1) ELSE hit1
    IN  [found |-> hit2, built_tag |-> bt1]

(* the two search loops, with the mutation of built_tag between them *)
ResolveTag(bt, ext, lines) ==
    LET hit1 == ext # None /\ SearchLoop(lines, bt \o DASH \o ext[1])
        bt1 == IF hit1 THEN bt \o DASH \o ext[1] ELSE bt
        hit2 == IF ~hit1 THEN SearchLoop(lines, bt1) ELSE TRUE
    IN  [found |-> hit2, built_tag |-> bt1]

(* elif tag_extension and not built_tag.endswith("-" + tag_extension) *)
NeedsRetag(ext, bt) ==
    /\ ext # None
    /\ ext[1] # <<>>
    /\ ~EndsWith(bt, DASH \o ext[1])

RetagCmd(rt, bt, ext) ==
    [op |-> "tag", rt |-> rt, src |-> bt, dst |-> bt \o DASH \o ext[1]]

ExtraTags(s, extra) ==
    [i \in 1..Len(extra) |-> s.index.img \o COLON \o extra[i]]

(* variant: the extra tags are applied in reverse order *)
TagCmds_Reversed(rt, bt, extra_tags) ==
    [i \in 1..Len(extra_tags) |->
        [op |-> "tag", rt |-> rt, src |-> bt,
         dst |-> extra_tags[Len(extra_tags) + 1 - i]]]

TagCmds(rt, bt, extra_tags) ==
    [i \in 1..Len(extra_tags) |->
        [op |-> "tag", rt |-> rt, src |-> bt, dst |-> extra_tags[i]]]

(* variant: the working tag is pushed first *)
PushCmds_WorkingFirst(rt, extra_tags, bt) ==
    LET refs == <<bt>> \o extra_tags
    IN  [i \in 1..Len(refs) |->
            [op |-> "push", rt |-> rt, src |-> refs[i], dst |-> <<>>]]

(* variant: extra tags equal to the working tag are pushed only once *)
PushCmds_Dedup(rt, extra_tags, bt) ==
    LET keep(t) == t # bt
        refs == SelectSeq(extra_tags, keep) \o <<bt>>
    IN  [i \in 1..Len(refs) |->
            [op |-> "push", rt |-> rt, src |-> refs[i], dst |-> <<>>]]

PushCmds(rt, extra_tags, bt) ==
    LET refs == extra_tags \o <<bt>>
    IN  [i \in 1..Len(refs) |->
            [op |-> "push", rt |-> rt, src |-> refs[i], dst |-> <<>>]]

-----------------------------------------------------------------------------
(* State after the process has started in front of a host and a command    *)
(* line                                                                    *)

Init ==
    /\ host \in [docker : HostStates, podman : HostStates]
    /\ store \in {S \in SUBSET StoreUniverse : Cardinality(S) <= MaxStore}
    /\ settings \in [bundles : {<<BundleA, BundleB>>},
                     index : [img : {IDX}, tag : IndexTags]]
    /\ tag_extension \in Extensions
    /\ extra_tag \in SeqsUpTo(BareTags, MaxExtra)
    /\ build \in BOOLEAN
    /\ pc = "start"
    /\ runtime = None
    /\ images = <<>>
    /\ found_image = FALSE
    /\ built_tag = <<>>
    /\ tag_cmds = <<>>
    /\ push_cmds = <<>>
    /\ cmds = <<>>
    /\ detections = 0
    /\ run = 1
    /\ prev = [pushed |-> <<>>, store |-> {}]

-----------------------------------------------------------------------------
(* push, step by step                                                      *)

(* runtime = OperatorIndexSettings._determine_runtime(); load_settings();  *)
(* built_tag = "{}:{}".format(...)                                         *)
Detect ==
    /\ pc = "start"
    /\ detections' = detections + 1
    /\ LET r == determine_runtime(host)
       IN  IF r = None
           THEN /\ pc' = "NoRuntimeFound"
                /\ UNCHANGED <<runtime, built_tag>>
           ELSE /\ pc' = "detected"
                /\ runtime' = r[1]
                /\ built_tag' = ConfiguredTag(settings)
    /\ cmds' = cmds \o which_log(host)
    /\ UNCHANGED <<inputs, history, store, images, found_image, tag_cmds, push_cmds>>

(* images = [line for line in shell(runtime + " images --format ...")] *)
ListImages ==
    /\ pc = "detected"
    /\ \E ret \in ListRets, lines \in Orderings(store) :
         /\ cmds' = ShellIterated(cmds, [op |-> "images", rt |-> runtime,
                                          src |-> <<>>, dst |-> <<>>], ret)
         /\ IF ShellExits(TRUE, ret)
            THEN pc' = "ListFailed" /\ UNCHANGED images
            ELSE pc' = "listed" /\ images' = lines
    /\ UNCHANGED <<inputs, history, store, runtime, found_image, built_tag,
                   tag_cmds, push_cmds, detections>>

(* the two search loops over the listed images *)
Resolve ==
    /\ pc = "listed"
    /\ LET r == ResolveTag(built_tag, tag_extension, images)
       IN  /\ found_image' = r.found
           /\ built_tag' = r.built_tag
    /\ pc' = "resolved"
    /\ UNCHANGED <<inputs, history, store, runtime, images, tag_cmds, push_cmds,
                   cmds, detections>>

(* extra_tags and tag_cmds, computed once the working tag is settled *)
EnterTagging(bt) ==
    /\ built_tag' = bt
    /\ tag_cmds' = TagCmds(runtime, bt, ExtraTags(settings, extra_tag))
    /\ pc' = "tag"

(* not found_image and build: ctx.invoke(do_build, ...), which loads the   *)
(* settings, renders the command line (detecting the runtime again) and    *)
(* runs the builder; then built_tag += "-" + tag_extension                 *)
DoBuild ==
    /\ pc = "resolved"
    /\ ~found_image
    /\ build
    /\ detections' = detections + 1
    /\ LET r == determine_runtime(host)
       IN  IF r = None
           THEN /\ pc' = "NoRuntimeFound"
                /\ cmds' = cmds \o which_log(host)
                /\ UNCHANGED <<store, built_tag, tag_cmds>>
           ELSE \E ret \in BuildRets :
                  LET cmd == build_cmd(settings, r[1], tag_extension)
                  IN  /\ cmds' = ShellIterated(cmds \o which_log(host),
                                    [op |-> "build", rt |-> r[1],
                                     src |-> cmd, dst |-> <<>>], ret)
                      /\ IF ShellExits(TRUE, ret)
                         THEN /\ pc' = "BuildFailed"
                              /\ UNCHANGED <<store, built_tag, tag_cmds>>
                         ELSE /\ store' = store \cup {BuilderTagArg(cmd)}
                              /\ EnterTagging(Extend(built_tag, tag_extension))
    /\ UNCHANGED <<inputs, history, runtime, images, found_image, push_cmds>>

(* variant: the missing image is not reported and the run goes on *)
RaiseNotFound_Continues ==
    /\ pc = "resolved"
    /\ ~found_image
    /\ ~build
    /\ EnterTagging(built_tag)
    /\ UNCHANGED <<inputs, history, store, runtime, images, found_image, push_cmds,
                   cmds, detections>>

(* not found_image and not build: raise RuntimeError *)
RaiseNotFound ==
    /\ pc = "resolved"
    /\ ~found_image
    /\ ~build
    /\ pc' = "ImageNotFound"
    /\ UNCHANGED <<inputs, history, store, runtime, images, found_image, built_tag,
                   tag_cmds, push_cmds, cmds, detections>>

(* found, but the tag does not end in the extension: shell(runtime tag ..) *)
(* is called and its generator dropped, then built_tag is extended         *)
Retag ==
    /\ pc = "resolved"
    /\ found_image
    /\ NeedsRetag(tag_extension, built_tag)
    /\ cmds' = ShellNotIterated(cmds, RetagCmd(runtime, built_tag, tag_extension))
    /\ EnterTagging(built_tag \o DASH \o tag_extension[1])
    /\ UNCHANGED <<inputs, history, store, runtime, images, found_image, push_cmds,
                   detections>>

(* found and nothing to retag *)
NoRetag ==
    /\ pc = "resolved"
    /\ found_image
    /\ ~NeedsRetag(tag_extension, built_tag)
    /\ EnterTagging(built_tag)
    /\ UNCHANGED <<inputs, history, store, runtime, images, found_image, push_cmds,
                   cmds, detections>>

(* for tag_cmd in tag_cmds: for line in shell(tag_cmd): print(line) *)
TagStep ==
    /\ pc = "tag"
    /\ tag_cmds # <<>>
    /\ LET c == Head(tag_cmds)
       IN  \E ret \in TagRets(store, c.src) :
             /\ cmds' = ShellIterated(cmds, c, ret)
             /\ IF ShellExits(TRUE, ret)
                THEN /\ pc' = "PushFailed"
                     /\ UNCHANGED <<store, tag_cmds>>
                ELSE /\ pc' = "tag"
                     /\ store' = store \cup {c.dst}
                     /\ tag_cmds' = Tail(tag_cmds)
    /\ UNCHANGED <<inputs, history, runtime, images, found_image, built_tag,
                   push_cmds, detections>>

(* push_cmds = [runtime + " push " + tag for tag in extra_tags + [built_tag]] *)
StartPush ==
    /\ pc = "tag"
    /\ tag_cmds = <<>>
    /\ push_cmds' = PushCmds(runtime, ExtraTags(settings, extra_tag), built_tag)
    /\ pc' = "push"
    /\ UNCHANGED <<inputs, history, store, runtime, images, found_image, built_tag,
                   tag_cmds, cmds, detections>>

(* for push_cmd in push_cmds: for line in shell(push_cmd): print(line) *)
PushStep ==
    /\ pc = "push"
    /\ push_cmds # <<>>
    /\ LET c == Head(push_cmds)
       IN  \E ret \in PushRets(store, c.src) :
             /\ cmds' = ShellIterated(cmds, c, ret)
             /\ IF ShellExits(TRUE, ret)
                THEN /\ pc' = "PushFailed"
                     /\ UNCHANGED push_cmds
                ELSE /\ push_cmds' = Tail(push_cmds)
                     /\ pc' = IF Len(push_cmds) = 1 THEN "Done" ELSE "push"
    /\ UNCHANGED <<inputs, history, store, runtime, images, found_image, built_tag,
                   tag_cmds, detections>>

(* the same command line is run again after a run that completed: every   *)
(* per-run variable starts afresh, the local image store is what the      *)
(* previous run left                                                      *)
PushedRefs(log) ==
    LET pushes == SelectSeq(log, LAMBDA c : c.op = "push")
    IN  [i \in 1..Len(pushes) |-> pushes[i].src]

Rerun ==
    /\ pc = "Done"
    /\ run < MaxRuns
    /\ run' = run + 1
    /\ prev' = [pushed |-> PushedRefs(cmds), store |-> store]
    /\ pc' = "start"
    /\ runtime' = None
    /\ images' = <<>>
    /\ found_image' = FALSE
    /\ built_tag' = <<>>
    /\ tag_cmds' = <<>>
    /\ push_cmds' = <<>>
    /\ cmds' = <<>>
    /\ detections' = 0
    /\ UNCHANGED <<inputs, store>>

-----------------------------------------------------------------------------
(* The `build` command run on its own                                      *)

InitBuild ==
    /\ host \in [docker : HostStates, podman : HostStates]
    /\ store = {}
    /\ settings \in [bundles : SeqsUpTo({BundleA, BundleB}, MaxBundles),
                     index : [img : {IDX}, tag : IndexTags]]
    /\ tag_extension \in Extensions
    /\ extra_tag = <<>>
    /\ build = TRUE
    /\ pc = "build_start"
    /\ runtime = None
    /\ images = <<>>
    /\ found_image = FALSE
    /\ built_tag = <<>>
    /\ tag_cmds = <<>>
    /\ push_cmds = <<>>
    /\ cmds = <<>>
    /\ detections = 0
    /\ run = 1
    /\ prev = [pushed |-> <<>>, store |-> {}]

(* do_build: load the settings, render the command line (which detects the *)
(* runtime), append the extension and run the builder                      *)
BuildCommand ==
    /\ pc = "build_start"
    /\ detections' = detections + 1
    /\ LET r == determine_runtime(host)
       IN  IF r = None
           THEN /\ pc' = "NoRuntimeFound"
                /\ cmds' = cmds \o which_log(host)
                /\ UNCHANGED store
           ELSE \E ret \in BuildRets :
                  LET cmd == build_cmd(settings, r[1], tag_extension)
                  IN  /\ cmds' = ShellIterated(cmds \o which_log(host),
                                    [op |-> "build", rt |-> r[1],
                                     src |-> cmd, dst |-> <<>>], ret)
                      /\ IF ShellExits(TRUE, ret)
                         THEN pc' = "BuildFailed" /\ UNCHANGED store
                         ELSE /\ pc' = "Done"
                              /\ store' = store \cup {BuilderTagArg(cmd)}
    /\ UNCHANGED <<inputs, history, runtime, images, found_image, built_tag,
                   tag_cmds, push_cmds>>

NextBuild == BuildCommand

SpecBuild == InitBuild /\ [][NextBuild]_vars

-----------------------------------------------------------------------------
Next ==
    \/ Detect
    \/ ListImages
    \/ Resolve
    \/ DoBuild
    \/ RaiseNotFound
    \/ Retag
    \/ NoRetag
    \/ TagStep
    \/ StartPush
    \/ PushStep

Spec == Init /\ [][Next]_vars

(* push, run again with the same command line once it has completed *)
NextRerun ==
    \/ Next
    \/ Rerun

SpecRerun == Init /\ [][NextRerun]_vars

-----------------------------------------------------------------------------
(* Vocabulary of the properties                                            *)

B == settings.index.img \o COLON \o settings.index.tag
E == tag_extension[1]
BE == B \o DASH \o E
ExtGiven == tag_extension # None
Listed(ref) == \E i \in DOMAIN images : images[i] = ref
IsTag(c) == c.op = "tag"
IsPush(c) == c.op = "push"
IsBuild(c) == c.op = "build"
TagLog == SelectSeq(cmds, IsTag)
PushLog == SelectSeq(cmds, IsPush)
BuildLog == SelectSeq(cmds, IsBuild)
IsPrefix(s, t) == Len(s) <= Len(t) /\ s = SubSeq(t, 1, Len(s))
(* the decision after the search loops has been taken *)
Decided == pc \in {"tag", "push", "Done", "PushFailed", "BuildFailed",
                   "ImageNotFound"}
(* the two search loops have run *)
SearchDone == pc = "resolved" \/ Decided
(* the run is in, or has left, the extra-tag/push phase *)
InTagPush == pc \in {"tag", "push", "Done", "PushFailed"}
GenericOnly == ExtGiven /\ Listed(B) /\ ~Listed(BE)
NeitherListed == ~Listed(B) /\ (ExtGiven => ~Listed(BE))
ExpectedExtra == [i \in 1..Len(extra_tag) |-> settings.index.img \o COLON \o extra_tag[i]]

-----------------------------------------------------------------------------
(* C1: when an extension is requested and the listed images hold B but    *)
(* not B-E, the command `runtime tag B B-E` has run and completed before  *)
(* the first push command of the run is issued.                           *)
C1_RetagBeforePush ==
    (InTagPush /\ GenericOnly /\ E # <<>> /\ ~EndsWith(B, DASH \o E)
               /\ PushLog # <<>>) =>
        \E i \in DOMAIN cmds :
            /\ cmds[i] = [op |-> "tag", rt |-> runtime, src |-> B, dst |-> BE,
                          ret |-> 0]
            /\ \A j \in DOMAIN cmds : IsPush(cmds[j]) => i < j

(* C2: the push commands issued are, in order, every extra tag in caller  *)
(* order and then the working tag, nothing else: at any moment a prefix   *)
(* of that sequence, and the whole of it when the run completes.          *)
C2_PushOrder ==
    LET expected == ExpectedExtra \o <<built_tag>>
        pushed == [i \in 1..Len(PushLog) |-> PushLog[i].src]
    IN  /\ PushLog # <<>> => IsPrefix(pushed, expected)
        /\ \A i \in DOMAIN PushLog : PushLog[i].rt = runtime
        /\ pc = "Done" => pushed = expected

C2_Witness ==
    /\ pc = "Done"
    /\ Len(extra_tag) = 2
    /\ extra_tag[1] # extra_tag[2]
    /\ Len(PushLog) = 3

(* C3: the tag resolution of push equals the reference resolver: B-E when *)
(* an extension is given and B-E is listed, else B when B is listed, else *)
(* not found with B; matching is exact equality.                          *)
RefResolve(base, ext, L) ==
    IF ext # None /\ (base \o DASH \o ext[1]) \in L
    THEN [found |-> TRUE, resolvedTag |-> base \o DASH \o ext[1]]
    ELSE IF base \in L
    THEN [found |-> TRUE, resolvedTag |-> base]
    ELSE [found |-> FALSE, resolvedTag |-> base]

C3_ResolveMatchesReference ==
    pc = "resolved" =>
        LET r == RefResolve(B, tag_extension, {images[i] : i \in DOMAIN images})
        IN  /\ found_image = r.found
            /\ built_tag = r.resolvedTag

C3_Witness ==
    /\ pc = "resolved"
    /\ ExtGiven
    /\ Listed(B)
    /\ Listed(BE)
    /\ found_image
    /\ built_tag = BE

(* C4 as stated: with B listed, B-E not listed, an extension requested    *)
(* and building disabled, the run fails with ImageNotFound and issues no  *)
(* tag and no push command.                                               *)
C4_GenericOnlyNoBuildFails ==
    (Decided /\ GenericOnly /\ ~build) =>
        /\ pc = "ImageNotFound"
        /\ TagLog = <<>>
        /\ PushLog = <<>>

(* C4 as amended: in that case the generic tag counts as found; the run   *)
(* never fails with ImageNotFound, never invokes the builder, and goes on *)
(* to the extra-tag/push phase.                                           *)
C4_GenericOnlyNoBuildProceeds ==
    (GenericOnly /\ ~build /\ SearchDone) =>
        /\ found_image
        /\ BuildLog = <<>>
        /\ pc # "ImageNotFound"
        /\ pc = "resolved" \/ InTagPush

C4_Witness ==
    /\ GenericOnly
    /\ ~build
    /\ E = CI
    /\ pc = "PushFailed"
    /\ PushLog # <<>>

(* C5 as stated: with B listed, B-E not listed, an extension requested    *)
(* and building enabled, the builder has been run before anything is      *)
(* pushed.                                                                *)
C5_GenericOnlyBuilds ==
    (GenericOnly /\ build /\ PushLog # <<>>) =>
        \E i \in DOMAIN cmds :
            /\ IsBuild(cmds[i])
            /\ \A j \in DOMAIN cmds : IsPush(cmds[j]) => i < j

(* C5 as amended: in that case the builder is not invoked at all; the     *)
(* generic tag counts as found and the run goes straight to the           *)
(* extra-tag/push phase.                                                  *)
C5_GenericOnlyNeverBuilds ==
    (GenericOnly /\ build /\ SearchDone) =>
        /\ found_image
        /\ BuildLog = <<>>
        /\ detections = 1
        /\ pc = "resolved" \/ InTagPush

C5_Witness ==
    /\ GenericOnly
    /\ build
    /\ E = CI
    /\ pc = "PushFailed"
    /\ PushLog # <<>>

(* C6: when neither B nor B-E is listed and building is enabled, the      *)
(* builder is run exactly once, its --tag value is B-E when an extension  *)
(* is given and B otherwise, and that value is the working tag: the       *)
(* source of every extra-tag command and the last reference pushed.       *)
C6_BuiltTagIsWorkingTag ==
    (Decided /\ NeitherListed /\ build) =>
        /\ Len(BuildLog) = 1
        /\ BuildLog[1].rt = runtime
        /\ LET arg == BuilderTagArg(BuildLog[1].src)
           IN  /\ arg = IF ExtGiven THEN BE ELSE B
               /\ InTagPush => built_tag = arg
               /\ \A i \in DOMAIN TagLog : TagLog[i].src = arg
               /\ pc = "Done" => PushLog[Len(PushLog)].src = arg

C6_Witness ==
    /\ pc = "Done"
    /\ NeitherListed
    /\ build
    /\ ExtGiven
    /\ E = CI
    /\ Len(TagLog) = 2
    /\ Len(BuildLog) = 1

(* C7: when neither B nor (with an extension) B-E is listed and building  *)
(* is disabled, the run ends in ImageNotFound; the builder is not run and *)
(* no tag or push command is issued.                                      *)
C7_MissingNoBuildFails ==
    (NeitherListed /\ ~build /\ SearchDone) =>
        /\ pc \in {"resolved", "ImageNotFound"}
        /\ ~found_image
        /\ BuildLog = <<>>
        /\ TagLog = <<>>
        /\ PushLog = <<>>

C7_Witness ==
    /\ pc = "ImageNotFound"
    /\ NeitherListed
    /\ ~build
    /\ extra_tag # <<>>

(* C8: a tag or push command that exits non-zero is the last command of   *)
(* the run: the run is then in PushFailed, nothing is issued after it and *)
(* it is not issued again.                                                *)
C8_FailedCommandIsLast ==
    \A i \in DOMAIN cmds :
        ((IsTag(cmds[i]) \/ IsPush(cmds[i])) /\ cmds[i].ret # 0) =>
            /\ i = Len(cmds)
            /\ pc = "PushFailed"

C8_Witness ==
    /\ pc = "PushFailed"
    /\ IsTag(cmds[Len(cmds)])
    /\ cmds[Len(cmds)].src \in store
    /\ Len(tag_cmds) = 2

(* C9 as stated: the extra tags never contain the working tag.            *)
C9_ExtraTagsExcludeWorkingTag ==
    InTagPush => \A i \in DOMAIN ExpectedExtra : ExpectedExtra[i] # built_tag

(* C9 as amended: the extra tags are exactly {indexImage}:t for every     *)
(* caller-supplied t, unfiltered; each t with {indexImage}:t equal to the *)
(* working tag makes the run tag the working tag onto itself once and     *)
(* push it once more than the final push of the working tag.              *)
Coinciding == {i \in DOMAIN ExpectedExtra : ExpectedExtra[i] = built_tag}

C9_CoincidingExtraTagsKept ==
    pc = "Done" =>
        /\ Cardinality({i \in DOMAIN TagLog : TagLog[i].src = TagLog[i].dst})
             = Cardinality(Coinciding)
        /\ Cardinality({i \in DOMAIN PushLog : PushLog[i].src = built_tag})
             = Cardinality(Coinciding) + 1

C9_Witness ==
    /\ pc = "Done"
    /\ Cardinality(Coinciding) = 1
    /\ Len(extra_tag) = 2

(* C10: the tag commands issued are `runtime tag W {indexImage}:ti` for   *)
(* the caller's tags in caller order, duplicates included, all with the   *)
(* final working tag W as source; all n have completed before the first   *)
(* push command is issued.                                                *)
C10_ExtraTagCommands ==
    LET expected == [i \in 1..Len(extra_tag) |->
                        [op |-> "tag", rt |-> runtime, src |-> built_tag,
                         dst |-> settings.index.img \o COLON \o extra_tag[i]]]
        issued == [i \in 1..Len(TagLog) |->
                        [op |-> TagLog[i].op, rt |-> TagLog[i].rt,
                         src |-> TagLog[i].src, dst |-> TagLog[i].dst]]
    IN  /\ TagLog # <<>> => IsPrefix(issued, expected)
        /\ PushLog # <<>> =>
              /\ issued = expected
              /\ \A i \in DOMAIN TagLog : TagLog[i].ret = 0
              /\ \A i, j \in DOMAIN cmds :
                    (IsTag(cmds[i]) /\ IsPush(cmds[j])) => i < j

C10_Witness ==
    /\ pc = "Done"
    /\ Len(extra_tag) = 2
    /\ extra_tag[1] = extra_tag[2]
    /\ Len(TagLog) = 2

(* C11: when the builder run from push exits non-zero the command ends in *)
(* BuildFailed: the failed build is the last command of the run, so no    *)
(* retag, extra-tag or push command follows and the build is not run      *)
(* again.                                                                 *)
C11_FailedBuildIsLast ==
    \A i \in DOMAIN cmds :
        (IsBuild(cmds[i]) /\ cmds[i].ret # 0) =>
            /\ i = Len(cmds)
            /\ pc = "BuildFailed"
            /\ TagLog = <<>>
            /\ PushLog = <<>>
            /\ Len(BuildLog) = 1

C11_Witness ==
    /\ pc = "BuildFailed"
    /\ cmds[Len(cmds)].ret # 0
    /\ IsBuild(cmds[Len(cmds)])
    /\ extra_tag # <<>>
    /\ ExtGiven

(* C13: runtime detection tries docker, then podman; a candidate is taken *)
(* only when its path is not a symbolic link; once docker is taken podman *)
(* is not looked up; podman is returned when docker is absent or a link   *)
(* and podman is a real executable; with no candidate taken the run fails *)
(* with NoRuntimeFound.                                                   *)
IsWhich(c) == c.op = "which"
WhichLog == SelectSeq(cmds, IsWhich)
LookedUp == [i \in 1..Len(WhichLog) |-> WhichLog[i].src]

C13_RuntimeDetection ==
    pc \in {"detected", "NoRuntimeFound"} =>
        /\ host.docker = "real" =>
              /\ pc = "detected"
              /\ runtime = DOCKER
              /\ LookedUp = <<DOCKER>>
        /\ (host.docker # "real" /\ host.podman = "real") =>
              /\ pc = "detected"
              /\ runtime = PODMAN
              /\ LookedUp = <<DOCKER, PODMAN>>
        /\ (host.docker # "real" /\ host.podman # "real") =>
              /\ pc = "NoRuntimeFound"
              /\ runtime = None
              /\ LookedUp = <<DOCKER, PODMAN>>

C13_Witness ==
    /\ pc = "detected"
    /\ host.docker = "link"
    /\ host.podman = "real"
    /\ runtime = PODMAN

(* C14 as stated: in every push run the runtime is detected exactly once. *)
C14_DetectedOnce ==
    pc # "start" => detections = 1

(* C14 as amended: the runtime is detected once at the start of push and  *)
(* once more by generate_command_line when the run builds, so twice in a  *)
(* building run; both detections give the same runtime, which is the      *)
(* builder's --build-tool and the runtime of every images, tag and push   *)
(* command of the run.                                                    *)
UsesRuntime(c) == c.op \in {"images", "tag", "push"}

C14_DetectedOncePlusBuild ==
    pc # "start" =>
        /\ detections = 1 + Len(BuildLog)
        /\ Len(WhichLog) = detections * Len(which_log(host))
        /\ \A i \in DOMAIN BuildLog :
              /\ BuildLog[i].rt = runtime
              /\ BuilderToolArg(BuildLog[i].src) = runtime
        /\ \A i \in DOMAIN cmds : UsesRuntime(cmds[i]) => cmds[i].rt = runtime
        /\ \A i \in DOMAIN tag_cmds : tag_cmds[i].rt = runtime
        /\ \A i \in DOMAIN push_cmds : push_cmds[i].rt = runtime

C14_Witness ==
    /\ pc = "Done"
    /\ detections = 2
    /\ runtime = PODMAN
    /\ Len(BuildLog) = 1
    /\ Len(TagLog) = 1

(* C15: the rendered builder arguments are " index add --build-tool       *)
(* {runtime} --bundles {csv} --tag {indexImage}:{indexTag}", csv being    *)
(* every bundle's image:tag in the stored order joined by commas; the     *)
(* string ends with the index tag, so the appended "-{extension}"         *)
(* extends the index tag and nothing else.                                *)
RECURSIVE FieldsFrom(_, _, _, _)
FieldsFrom(s, sep, cur, acc) ==
    IF s = <<>> THEN Append(acc, cur)
    ELSE IF Head(s) = sep THEN FieldsFrom(Tail(s), sep, <<>>, Append(acc, cur))
    ELSE FieldsFrom(Tail(s), sep, Append(cur, Head(s)), acc)

Fields(s, sep) == FieldsFrom(s, sep, <<>>, <<>>)

ScenarioLine ==
    <<"o", "p", "m", " ", "i", "n", "d", "e", "x", " ", "a", "d", "d", " ",
      "-", "-", "b", "u", "i", "l", "d", "-", "t", "o", "o", "l", " ",
      "d", "o", "c", "k", "e", "r", " ",
      "-", "-", "b", "u", "n", "d", "l", "e", "s", " ", "a", ":", "1", " ",
      "-", "-", "t", "a", "g", " ", "i", "d", "x", ":", "v", "1">>

IsScenario ==
    /\ settings.bundles = <<BundleA>>
    /\ settings.index.tag = V1
    /\ host.docker = "real"
    /\ ~ExtGiven

C15_CommandLine ==
    \A k \in DOMAIN BuildLog :
        LET line == BuildLog[k].src
            argv == Fields(line, " ")
            n == Len(settings.bundles)
            tool == <<"d", "o", "c", "k", "e", "r">>
            target == IF ExtGiven THEN BE ELSE B
        IN  /\ Len(argv) = 9
            /\ argv[1] = <<"o", "p", "m">>
            /\ argv[2] = <<"i", "n", "d", "e", "x">>
            /\ argv[3] = <<"a", "d", "d">>
            /\ argv[4] = <<"-", "-", "b", "u", "i", "l", "d", "-", "t", "o", "o", "l">>
            /\ argv[5] = IF host.docker = "real" THEN tool ELSE PODMAN
            /\ argv[6] = <<"-", "-", "b", "u", "n", "d", "l", "e", "s">>
            /\ n = 0 => argv[7] = <<>>
            /\ n > 0 =>
                  LET refs == Fields(argv[7], ",")
                  IN  /\ Len(refs) = n
                      /\ \A i \in 1..n :
                            refs[i] = settings.bundles[i].img \o <<":">>
                                        \o settings.bundles[i].tag
            /\ argv[8] = <<"-", "-", "t", "a", "g">>
            /\ argv[9] = target
            /\ IsScenario => line = ScenarioLine

C15_Witness ==
    /\ pc = "Done"
    /\ Len(BuildLog) = 1
    /\ settings.bundles = <<BundleB, BundleA>>
    /\ ExtGiven
    /\ E = CI

(* C16: whenever a (non-empty) extension is requested and the run reaches *)
(* the extra-tag/push phase, the working tag is B-E, also when the        *)
(* configured index tag itself ends in "-E".                              *)
C16_WorkingTagIsExtended ==
    (InTagPush /\ ExtGiven /\ E # <<>>) => built_tag = BE

(* C17: the source of every tag command and the argument of every push    *)
(* command was, when the command was issued, a listed local image, the    *)
(* product of a successful build of this run, or the target of an earlier *)
(* successful tag command of this run.                                    *)
KnownBefore(i) ==
    {images[k] : k \in DOMAIN images}
      \cup {BuilderTagArg(cmds[j].src) :
                j \in {k \in 1..(i - 1) : IsBuild(cmds[k]) /\ cmds[k].ret = 0}}
      \cup {cmds[j].dst :
                j \in {k \in 1..(i - 1) : IsTag(cmds[k]) /\ cmds[k].ret = 0}}

C17_SourcesExist ==
    \A i \in DOMAIN cmds :
        (IsTag(cmds[i]) \/ IsPush(cmds[i])) => cmds[i].src \in KnownBefore(i)

(* C18: the builder is run at most once in a push run, and only when the  *)
(* build flag is set and the listed images hold neither B nor, with an    *)
(* extension, B-E; with either listed it is never run.                    *)
C18_BuildOnlyWhenMissing ==
    /\ Len(BuildLog) <= 1
    /\ BuildLog # <<>> => (build /\ NeitherListed)
    /\ (SearchDone /\ (Listed(B) \/ (ExtGiven /\ Listed(BE)))) =>
          /\ found_image
          /\ BuildLog = <<>>
          /\ pc # "BuildFailed"

C18_Witness ==
    /\ pc = "Done"
    /\ Len(BuildLog) = 1
    /\ ~ExtGiven
    /\ images # <<>>
    /\ extra_tag = <<>>

(* C12: a second run of push with the same inputs, after a run that       *)
(* completed, does not run the builder, does not fail for want of an      *)
(* image, issues the push sequence of the first run (a prefix of it while *)
(* it is under way) and leaves the set of local image tags as it was.     *)
C12_RerunIdempotent ==
    run > 1 =>
        /\ BuildLog = <<>>
        /\ pc \notin {"ImageNotFound", "BuildFailed", "NoRuntimeFound"}
        /\ store = prev.store
        /\ IsPrefix(PushedRefs(cmds), prev.pushed)
        /\ pc = "Done" => PushedRefs(cmds) = prev.pushed

====
